---------------------------- MODULE Spec2Model ----------------------------
(***************************************************************************)
(* A model of the Chord-style DHT routing core of src/main.py:             *)
(*   Node       identifier, data (local key store), finger_table;          *)
(*              find_successor, closest_preceding_node, in_range           *)
(*   ChordRing  nodes (member list), add_node, hash_key, find_node         *)
(* Node objects are references 1..Len(identifier); a node's fields are the *)
(* entries of identifier, data and finger_table at its reference.          *)
(***************************************************************************)
EXTENDS Integers, Sequences, FiniteSets, TLC

VARIABLES
    identifier,    \* identifier[n]: Node.identifier of node object n
    data,          \* data[n]: the keys of Node.data of node object n
    finger_table,  \* finger_table[n]: Node.finger_table, a dict level -> node or None
    nodes,         \* ChordRing.nodes: list of node references
    sha1,          \* the digest function behind hash_key, key string -> identifier
    fn_key,        \* find_node: key of the last call ("" before any call)
    fn_seen,       \* find_node: the member list the last call read under the lock
    fn_out,        \* find_node: outcome of the last call
    fs_key,        \* find_successor: key searched for
    fs_stack,      \* find_successor: the node of each frame on the call stack, innermost last
    fs_status,     \* find_successor: "idle", "running", "returned" or the exception raised
    cp_self,       \* closest_preceding_node: node of the last call (0 before any)
    cp_key,        \* closest_preceding_node: key of the last call
    cp_out,        \* closest_preceding_node: node returned, or the exception raised
    ir_args,       \* in_range: <<target, start, end>> of the last call (<<>> before any)
    ir_out,        \* in_range: its result
    rg_members,    \* range chaining: ascending distinct member identifiers
    rg_x,          \* range chaining: identifier asked about (-1 before any)
    rg_owners,     \* range chaining: members whose range holds rg_x
    lock,          \* ChordRing.lock: the thread holding it (NoThread when free)
    pc,            \* pc[t]: where thread t is in its add_node or find_node call
    th_node,       \* th_node[t]: the node thread t is adding (None when not adding)
    th_key,        \* th_key[t]: the key of thread t's find_node call ("" when none)
    th_seen,       \* th_seen[t]: the member list thread t's find_node read
    th_out,        \* th_out[t]: the outcome of thread t's find_node call
    acquired       \* the nodes of the add_node calls, in the order they took the lock

vars == << identifier, data, finger_table, nodes, sha1, fn_key, fn_seen, fn_out,
           fs_key, fs_stack, fs_status, cp_self, cp_key, cp_out,
           ir_args, ir_out, rg_members, rg_x, rg_owners,
           lock, pc, th_node, th_key, th_seen, th_out, acquired >>

ringVars == << nodes, fn_key, fn_seen, fn_out >>
searchVars == << fs_key, fs_stack, fs_status >>
fingerVars == << cp_self, cp_key, cp_out >>
rangeVars == << ir_args, ir_out, rg_members, rg_x, rg_owners >>
nodeVars == << identifier, data, finger_table >>
threadVars == << lock, pc, th_node, th_key, th_seen, th_out, acquired >>

----------------------------------------------------------------------------
(* Bounds *)

\* Number of finger-table levels scanned (160 in the source).
m == 2

\* Largest identifier of the modelled identifier space (2^160 - 1 in the source).
MaxId == 3

\* Largest number of entries of ChordRing.nodes.
MaxRing == 3

\* Largest number of add_node calls the concurrent threads make in all.
MaxAdds == 2

\* Largest number of members whose ranges are chained around the ring.
MaxMembers == 3

\* Number of recursive calls after which the interpreter gives up a
\* recursion with RecursionError (sys.getrecursionlimit(), 1000 by default).
MaxDepth == 4

Ids == 0 .. MaxId
Levels == 1 .. m
Keys == {"key1", "key2"}

\* Node objects are numbered from 1 in order of construction.
NodeRefs == 1 .. Len(identifier)

\* The null reference (Python's None): the reference no node object has.
None == Len(<< >>)

\* How a call ends: it returns a node, or raises an exception.
Return(n) == [node |-> n, exc |-> ""]
Raise(e) == [node |-> None, exc |-> e]
NoOutcome == [node |-> None, exc |-> ""]

KeyError == "KeyError"
RecursionError == "RecursionError"
ZeroDivisionError == "ZeroDivisionError"

----------------------------------------------------------------------------
(* Node.__init__ *)

\* A dict with no entries.
EmptyDict == << >>

\* The three fields after Node(id) for a new object.
NodeInit(id) ==
    /\ identifier' = Append(identifier, id)
    /\ data' = Append(data, {})
    /\ finger_table' = Append(finger_table, EmptyDict)

----------------------------------------------------------------------------
(* Node.in_range *)

\* The end taken as exclusive.
in_range_strict(target, start, end) ==
    IF start <= end
    THEN start < target /\ target < end
    ELSE start < target \/ target < end

\* The wrapping test applied whether or not the range wraps.
in_range_always_or(target, start, end) ==
    start < target \/ target <= end

in_range(target, start, end) ==
    IF start <= end
    THEN start < target /\ target <= end
    ELSE start < target \/ target <= end

\* A call in_range(target, start, end) on any node; the result is recorded.
InRangeCall(target, start, end) ==
    /\ ir_args' = << target, start, end >>
    /\ ir_out' = in_range(target, start, end)
    /\ UNCHANGED << nodeVars, ringVars, sha1, threadVars, searchVars, fingerVars,
                    rg_members, rg_x, rg_owners >>

\* Ascending lists of distinct identifiers: the members of a ring, in ring order.
MemberLists ==
    {s \in UNION {[1 .. k -> Ids] : k \in 1 .. MaxMembers} :
        \A i, j \in 1 .. Len(s) : i < j => s[i] < s[j]}

\* The member before member i going around the ring; a sole member is its own.
Predecessor(s, i) == IF i = 1 THEN Len(s) ELSE i - 1

\* The members whose range of responsibility, in_range(x, predecessor's
\* identifier, own identifier), holds x.
Owners(s, x) ==
    {i \in 1 .. Len(s) : in_range(x, s[Predecessor(s, i)], s[i])}

Responsible(x) ==
    /\ rg_x' = x
    /\ rg_owners' = Owners(rg_members, x)
    /\ UNCHANGED << nodeVars, ringVars, sha1, threadVars, searchVars, fingerVars,
                    rg_members, ir_args, ir_out >>

----------------------------------------------------------------------------
(* Node.closest_preceding_node *)

\* for i in range(m, 0, -1), from level i down: self.finger_table[i] raises
\* KeyError when the dict has no entry i; an entry None is falsy and skipped.
RECURSIVE ScanFingers(_, _, _)
ScanFingers(n, key, i) ==
    IF i = 0 THEN Return(n)
    ELSE IF i \notin DOMAIN finger_table[n] THEN Raise(KeyError)
    ELSE LET f == finger_table[n][i] IN
         IF f # None /\ in_range(identifier[f], identifier[n], key)
         THEN Return(f)
         ELSE ScanFingers(n, key, i - 1)

\* The scan run from the finest level up to the coarsest.
RECURSIVE ScanFingersUp(_, _, _)
ScanFingersUp(n, key, i) ==
    IF i > m THEN Return(n)
    ELSE IF i \notin DOMAIN finger_table[n] THEN Raise(KeyError)
    ELSE LET f == finger_table[n][i] IN
         IF f # None /\ in_range(identifier[f], identifier[n], key)
         THEN Return(f)
         ELSE ScanFingersUp(n, key, i + 1)

closest_preceding_ascending(n, key) == ScanFingersUp(n, key, 1)

closest_preceding_node(n, key) == ScanFingers(n, key, m)

\* A call n.closest_preceding_node(key); the outcome is recorded.
ClosestPrecedingCall(n, key) ==
    /\ cp_self' = n
    /\ cp_key' = key
    /\ cp_out' = closest_preceding_node(n, key)
    /\ UNCHANGED << nodeVars, ringVars, sha1, threadVars, searchVars, rangeVars >>

----------------------------------------------------------------------------
(* Node.find_successor *)

\* n.find_successor(key) is called from outside: the first frame.
FindSuccessorCall(n, key) ==
    /\ fs_status = "idle"
    /\ fs_key' = key
    /\ fs_stack' = << n >>
    /\ fs_status' = "running"
    /\ UNCHANGED << nodeVars, ringVars, sha1, threadVars, fingerVars, rangeVars >>

\* The frame with the key looked up by a read that stores a missing key
\* (self.data as a defaulting dict).
FindSuccessorStepStoring ==
    /\ fs_status = "running"
    /\ LET self == fs_stack[Len(fs_stack)]
           successor == closest_preceding_node(self, fs_key)
       IN /\ data' = [data EXCEPT ![self] = @ \cup {fs_key}]
          /\ IF fs_key \in data[self]
             THEN fs_status' = "returned" /\ UNCHANGED fs_stack
             ELSE IF successor.exc # ""
             THEN fs_status' = successor.exc /\ UNCHANGED fs_stack
             ELSE IF Len(fs_stack) > MaxDepth
             THEN fs_status' = RecursionError /\ UNCHANGED fs_stack
             ELSE fs_stack' = Append(fs_stack, successor.node) /\ UNCHANGED fs_status
    /\ UNCHANGED << identifier, finger_table, ringVars, sha1, threadVars, fs_key,
                    fingerVars, rangeVars >>

\* The frame ending the search at a node that closest_preceding_node
\* returned for itself, whether or not the node holds the key.
FindSuccessorStepStopAtSelf ==
    /\ fs_status = "running"
    /\ LET self == fs_stack[Len(fs_stack)]
           successor == closest_preceding_node(self, fs_key)
       IN IF fs_key \in data[self]
          THEN fs_status' = "returned" /\ UNCHANGED fs_stack
          ELSE IF successor.exc # ""
          THEN fs_status' = successor.exc /\ UNCHANGED fs_stack
          ELSE IF successor.node = self
          THEN fs_status' = "returned" /\ UNCHANGED fs_stack
          ELSE IF Len(fs_stack) > MaxDepth
          THEN fs_status' = RecursionError /\ UNCHANGED fs_stack
          ELSE fs_stack' = Append(fs_stack, successor.node) /\ UNCHANGED fs_status
    /\ UNCHANGED << nodeVars, ringVars, sha1, threadVars, fs_key, fingerVars, rangeVars >>

\* The innermost frame runs: it returns its node when the key is in its data,
\* and otherwise calls find_successor on what closest_preceding_node returns.
\* An exception raised in a frame propagates out of every frame.
FindSuccessorStep ==
    /\ fs_status = "running"
    /\ LET self == fs_stack[Len(fs_stack)]
           successor == closest_preceding_node(self, fs_key)
       IN IF fs_key \in data[self]
          THEN fs_status' = "returned" /\ UNCHANGED fs_stack
          ELSE IF successor.exc # ""
          THEN fs_status' = successor.exc /\ UNCHANGED fs_stack
          ELSE IF Len(fs_stack) > MaxDepth
          THEN fs_status' = RecursionError /\ UNCHANGED fs_stack
          ELSE fs_stack' = Append(fs_stack, successor.node) /\ UNCHANGED fs_status
    /\ UNCHANGED << nodeVars, ringVars, sha1, threadVars, fs_key, fingerVars, rangeVars >>

----------------------------------------------------------------------------
(* ChordRing *)

\* An insertion that puts a node before the nodes of equal identifier
\* (a sort that is not stable).
RECURSIVE InsertBeforeEquals(_, _, _)
InsertBeforeEquals(ident, s, n) ==
    IF s = << >> THEN << n >>
    ELSE IF ident[s[Len(s)]] < ident[n]
         THEN Append(s, n)
         ELSE Append(InsertBeforeEquals(ident, SubSeq(s, 1, Len(s) - 1), n), s[Len(s)])

\* list.sort(key=lambda x: x.identifier): stable, ascending by identifier.
\* ident is the identifier field of every node object.
RECURSIVE InsertByIdentifier(_, _, _)
InsertByIdentifier(ident, s, n) ==
    IF s = << >> THEN << n >>
    ELSE IF ident[s[Len(s)]] <= ident[n]
         THEN Append(s, n)
         ELSE Append(InsertByIdentifier(ident, SubSeq(s, 1, Len(s) - 1), n), s[Len(s)])

RECURSIVE StableSort(_, _)
StableSort(ident, s) ==
    IF s = << >> THEN << >>
    ELSE InsertByIdentifier(ident, StableSort(ident, SubSeq(s, 1, Len(s) - 1)), s[Len(s)])

\* A sort forgotten: the list as appended.
NoSort(ident, s) == s

SortByIdentifier(ident, s) == StableSort(ident, s)

\* bisect.bisect_left(a, x) with lo, hi; indexes are 0-based as in the source.
RECURSIVE BisectFrom(_, _, _, _)
BisectFrom(a, x, lo, hi) ==
    IF lo < hi
    THEN LET mid == (lo + hi) \div 2 IN
         IF a[mid + 1] < x
         THEN BisectFrom(a, x, mid + 1, hi)
         ELSE BisectFrom(a, x, lo, mid)
    ELSE lo

\* The insertion point after the entries equal to x instead of before them.
bisect_right(a, x) ==
    Cardinality({i \in 1 .. Len(a) : a[i] <= x})

bisect_left(a, x) == BisectFrom(a, x, 0, Len(a))

\* [node.identifier for node in self.nodes]
IdentifierList(s) == [i \in 1 .. Len(s) |-> identifier[s[i]]]

hash_key(key) == sha1[key]

\* The outcome of find_node on member list s: a node, or ZeroDivisionError
\* from "% len(self.nodes)" when the list is empty.
FindNodeOutcome(s, key) ==
    IF Len(s) = 0
    THEN Raise(ZeroDivisionError)
    ELSE Return(s[(bisect_left(IdentifierList(s), hash_key(key)) % Len(s)) + 1])

\* node = Node(id); ring.add_node(node): append, then sort, under the lock.
add_node(id) ==
    /\ Len(nodes) < MaxRing
    /\ NodeInit(id)
    /\ nodes' = SortByIdentifier(identifier', Append(nodes, Len(identifier) + 1))
    /\ UNCHANGED << sha1, threadVars, fn_key, fn_seen, fn_out, searchVars, fingerVars, rangeVars >>

find_node(key) ==
    /\ fn_key' = key
    /\ fn_seen' = nodes
    /\ fn_out' = FindNodeOutcome(nodes, key)
    /\ UNCHANGED << nodeVars, nodes, sha1, threadVars, searchVars, fingerVars, rangeVars >>

----------------------------------------------------------------------------
(* ChordRing under threads: add_node and find_node step by step *)

Threads == {"t1", "t2"}
NoThread == "none"

\* threading.Lock.acquire() by thread t returns only when the lock is free.
CanAcquireUnguarded(t) == TRUE

CanAcquire(t) == lock = NoThread

\* The lock when thread t leaves its "with self.lock" block, by return or by
\* an exception (out): the with statement releases it either way.
LockKeptOnRaise(t, out) == IF out.exc # "" THEN t ELSE NoThread

LockAfterExit(t, out) == NoThread

\* Thread t constructs Node(id) and calls ring.add_node(node).
AddCall(t, id) ==
    /\ pc[t] = "idle"
    /\ Len(identifier) < MaxAdds
    /\ NodeInit(id)
    /\ th_node' = [th_node EXCEPT ![t] = Len(identifier) + 1]
    /\ th_key' = [th_key EXCEPT ![t] = ""]
    /\ th_seen' = [th_seen EXCEPT ![t] = << >>]
    /\ th_out' = [th_out EXCEPT ![t] = NoOutcome]
    /\ pc' = [pc EXCEPT ![t] = "add_acquire"]
    /\ UNCHANGED << ringVars, sha1, lock, acquired, searchVars, fingerVars, rangeVars >>

\* with self.lock: (line 44)
AddAcquire(t) ==
    /\ pc[t] = "add_acquire"
    /\ CanAcquire(t)
    /\ lock' = t
    /\ acquired' = Append(acquired, th_node[t])
    /\ pc' = [pc EXCEPT ![t] = "add_append"]
    /\ UNCHANGED << nodeVars, ringVars, sha1, th_node, th_key, th_seen, th_out,
                    searchVars, fingerVars, rangeVars >>

\* self.nodes.append(node) (line 45)
AddAppend(t) ==
    /\ pc[t] = "add_append"
    /\ nodes' = Append(nodes, th_node[t])
    /\ pc' = [pc EXCEPT ![t] = "add_sort"]
    /\ UNCHANGED << nodeVars, fn_key, fn_seen, fn_out, sha1, lock, th_node, th_key,
                    th_seen, th_out, acquired, searchVars, fingerVars, rangeVars >>

\* self.nodes.sort(key=lambda x: x.identifier) (line 46)
AddSort(t) ==
    /\ pc[t] = "add_sort"
    /\ nodes' = SortByIdentifier(identifier, nodes)
    /\ pc' = [pc EXCEPT ![t] = "add_exit"]
    /\ UNCHANGED << nodeVars, fn_key, fn_seen, fn_out, sha1, lock, th_node, th_key,
                    th_seen, th_out, acquired, searchVars, fingerVars, rangeVars >>

\* The with block of add_node is left and add_node returns.
AddExit(t) ==
    /\ pc[t] = "add_exit"
    /\ lock' = LockAfterExit(t, NoOutcome)
    /\ th_node' = [th_node EXCEPT ![t] = None]
    /\ pc' = [pc EXCEPT ![t] = "idle"]
    /\ UNCHANGED << nodeVars, ringVars, sha1, th_key, th_seen, th_out, acquired,
                    searchVars, fingerVars, rangeVars >>

\* Thread t calls ring.find_node(key); the key is hashed before the lock is
\* asked for (line 54).
FindCall(t, key) ==
    /\ pc[t] = "idle"
    /\ th_key' = [th_key EXCEPT ![t] = key]
    /\ th_seen' = [th_seen EXCEPT ![t] = << >>]
    /\ th_out' = [th_out EXCEPT ![t] = NoOutcome]
    /\ pc' = [pc EXCEPT ![t] = "find_acquire"]
    /\ UNCHANGED << nodeVars, ringVars, sha1, lock, th_node, acquired,
                    searchVars, fingerVars, rangeVars >>

\* with self.lock: (line 55)
FindAcquire(t) ==
    /\ pc[t] = "find_acquire"
    /\ CanAcquire(t)
    /\ lock' = t
    /\ pc' = [pc EXCEPT ![t] = "find_read"]
    /\ UNCHANGED << nodeVars, ringVars, sha1, th_node, th_key, th_seen, th_out,
                    acquired, searchVars, fingerVars, rangeVars >>

\* The lookup returning any one of the members that share the identifier
\* found, instead of the first of them in the list.
FindReadAnyEqual(t) ==
    /\ pc[t] = "find_read"
    /\ th_seen' = [th_seen EXCEPT ![t] = nodes]
    /\ LET out == FindNodeOutcome(nodes, th_key[t]) IN
         IF out.exc # ""
         THEN th_out' = [th_out EXCEPT ![t] = out]
         ELSE \E i \in 1 .. Len(nodes) :
                /\ identifier[nodes[i]] = identifier[out.node]
                /\ th_out' = [th_out EXCEPT ![t] = Return(nodes[i])]
    /\ pc' = [pc EXCEPT ![t] = "find_exit"]
    /\ UNCHANGED << nodeVars, ringVars, sha1, lock, th_node, th_key, acquired,
                    searchVars, fingerVars, rangeVars >>

\* The member list is read, bisected and indexed (lines 56-57).
FindRead(t) ==
    /\ pc[t] = "find_read"
    /\ th_seen' = [th_seen EXCEPT ![t] = nodes]
    /\ th_out' = [th_out EXCEPT ![t] = FindNodeOutcome(nodes, th_key[t])]
    /\ pc' = [pc EXCEPT ![t] = "find_exit"]
    /\ UNCHANGED << nodeVars, ringVars, sha1, lock, th_node, th_key, acquired,
                    searchVars, fingerVars, rangeVars >>

\* The with block of find_node is left, by the return or by the exception.
FindExit(t) ==
    /\ pc[t] = "find_exit"
    /\ lock' = LockAfterExit(t, th_out[t])
    /\ pc' = [pc EXCEPT ![t] = "idle"]
    /\ UNCHANGED << nodeVars, ringVars, sha1, th_node, th_key, th_seen, th_out,
                    acquired, searchVars, fingerVars, rangeVars >>

\* No thread has called the ring.
IdleThreads ==
    /\ lock = NoThread
    /\ pc = [t \in Threads |-> "idle"]
    /\ th_node = [t \in Threads |-> None]
    /\ th_key = [t \in Threads |-> ""]
    /\ th_seen = [t \in Threads |-> << >>]
    /\ th_out = [t \in Threads |-> NoOutcome]
    /\ acquired = << >>

IdleSearch ==
    /\ fs_key = 0 /\ fs_stack = << >> /\ fs_status = "idle"
    /\ cp_self = 0 /\ cp_key = 0 /\ cp_out = NoOutcome

IdleRange ==
    /\ ir_args = << >> /\ ir_out = FALSE
    /\ rg_members = << >> /\ rg_x = -1 /\ rg_owners = {}

\* ChordRing(): no members; no node object exists yet.
RingInit ==
    /\ identifier = << >> /\ data = << >> /\ finger_table = << >>
    /\ nodes = << >>
    /\ sha1 \in [Keys -> Ids]
    /\ fn_key = "" /\ fn_seen = << >> /\ fn_out = NoOutcome
    /\ IdleSearch /\ IdleRange /\ IdleThreads

RingNext ==
    \/ \E id \in Ids : add_node(id)
    \/ \E key \in Keys : find_node(key)

SpecRing == RingInit /\ [][RingNext]_vars

\* Two threads call add_node and find_node on one ring, in any interleaving.
ThreadsNext ==
    \E t \in Threads :
        \/ \E id \in Ids : AddCall(t, id)
        \/ AddAcquire(t)
        \/ AddAppend(t)
        \/ AddSort(t)
        \/ AddExit(t)
        \/ \E key \in Keys : FindCall(t, key)
        \/ FindAcquire(t)
        \/ FindRead(t)
        \/ FindExit(t)

SpecThreads == RingInit /\ [][ThreadsNext]_vars

\* in_range is a function of its arguments alone: its calls are made on
\* every triple of identifiers, and ranges are chained over every member list.
RangeInit ==
    /\ identifier = << >> /\ data = << >> /\ finger_table = << >>
    /\ nodes = << >>
    /\ sha1 = [k \in Keys |-> 0]
    /\ fn_key = "" /\ fn_seen = << >> /\ fn_out = NoOutcome
    /\ IdleSearch /\ IdleThreads
    /\ ir_args = << >> /\ ir_out = FALSE
    /\ rg_members \in MemberLists /\ rg_x = -1 /\ rg_owners = {}

RangeNext ==
    \/ \E target, start, end \in Ids : InRangeCall(target, start, end)
    \/ \E x \in Ids : Responsible(x)

SpecRange == RangeInit /\ [][RangeNext]_vars

\* The dicts a finger table can be: any levels present, each entry one of V.
FingerDicts(V) == UNION {[D -> V] : D \in SUBSET Levels}

\* Three node objects: node 1, whose finger table holds any entries (absent,
\* None, or any of the three nodes), and two nodes it may refer to.
Trio == {1, 2, 3}

FingerInit ==
    /\ identifier \in [Trio -> Ids]
    /\ data = [n \in Trio |-> {}]
    /\ \E d \in FingerDicts(Trio \cup {None}) :
           finger_table = [n \in Trio |-> IF n = 1 THEN d ELSE EmptyDict]
    /\ nodes = << >>
    /\ sha1 = [k \in Keys |-> 0]
    /\ fn_key = "" /\ fn_seen = << >> /\ fn_out = NoOutcome
    /\ IdleSearch /\ IdleRange /\ IdleThreads

FingerNext ==
    \E n \in NodeRefs, key \in Ids : ClosestPrecedingCall(n, key)

SpecFinger == FingerInit /\ [][FingerNext]_vars

\* Two node objects, each storing at most one key, each with a finger table
\* that is empty (as constructed) or holds a node of the pair at every level.
Pair == {1, 2}

Stores == {{}} \cup {{k} : k \in Ids}

SearchInit ==
    /\ identifier \in [Pair -> Ids]
    /\ data \in [Pair -> Stores]
    /\ finger_table \in [Pair -> {EmptyDict} \cup [Levels -> Pair]]
    /\ nodes = << >>
    /\ sha1 = [k \in Keys |-> 0]
    /\ fn_key = "" /\ fn_seen = << >> /\ fn_out = NoOutcome
    /\ IdleSearch /\ IdleRange /\ IdleThreads

SearchNext ==
    \/ \E n \in NodeRefs, key \in Ids : FindSuccessorCall(n, key)
    \/ FindSuccessorStep

SpecSearch == SearchInit /\ [][SearchNext]_vars

\* The finger tables that hold one node of the pair at every level.
UniformTables == {[i \in Levels |-> p] : p \in Pair}

\* Two node objects, each storing at most one key, each with a finger table
\* that is empty or uniform, and a ring that is empty or holds both nodes.
LookupInit ==
    /\ identifier \in [Pair -> Ids]
    /\ data \in [Pair -> Stores]
    /\ finger_table \in [Pair -> {EmptyDict} \cup UniformTables]
    /\ nodes \in {<< >>, SortByIdentifier(identifier, << 1, 2 >>)}
    /\ sha1 = [k \in Keys |-> 0]
    /\ fn_key = "" /\ fn_seen = << >> /\ fn_out = NoOutcome
    /\ IdleSearch /\ IdleRange /\ IdleThreads

\* No lookup has been called yet.
NoLookupYet ==
    fs_status = "idle" /\ cp_self = None /\ ir_args = << >> /\ fn_key = ""

\* One lookup call from a drawn state: each behaviour follows one call of
\* one of the four lookups to its end.
LookupNext ==
    \/ NoLookupYet /\ \E n \in NodeRefs, key \in Ids : FindSuccessorCall(n, key)
    \/ FindSuccessorStep
    \/ NoLookupYet /\ \E n \in NodeRefs, key \in Ids : ClosestPrecedingCall(n, key)
    \/ NoLookupYet /\ \E target, start, end \in Ids : InRangeCall(target, start, end)
    \/ NoLookupYet /\ \E key \in Keys : find_node(key)

SpecLookup == LookupInit /\ [][LookupNext]_vars

----------------------------------------------------------------------------
(* Claims about in_range, checked under SpecRange *)

InRangeCalled == ir_args # << >>
ir_target == ir_args[1]
ir_start == ir_args[2]
ir_end == ir_args[3]

\* The boundary law on the recorded call: the end is in the range, the
\* start is not.
BoundaryLaw ==
    /\ (ir_target = ir_end => ir_out = TRUE)
    /\ (ir_target = ir_start => ir_out = FALSE)

\* C3 as claimed: for all start and end, start = end included,
\* in_range(end, start, end) is true and in_range(start, start, end) is false.
C3_BoundaryLawAll == InRangeCalled => BoundaryLaw

\* C3 as amended: for all start and end with start # end, wrapping
\* (start > end) or not, in_range(end, start, end) is true and
\* in_range(start, start, end) is false.
C3_BoundaryLawDistinct ==
    (InRangeCalled /\ ir_start # ir_end) => BoundaryLaw

\* C3 witness: the end of a wrapping range was asked about and found in range.
C3_Witness ==
    /\ InRangeCalled
    /\ ir_start > ir_end
    /\ ir_target = ir_end
    /\ ir_out = TRUE

\* C4: with the ranges of distinct members chained around the ring, every
\* identifier is in the range of exactly one member.
C4_RangePartition ==
    rg_x # -1 => Cardinality(rg_owners) = 1

----------------------------------------------------------------------------
(* Claims about closest_preceding_node, checked under SpecFinger *)

\* The identifier space is a circle of RingSize identifiers.
RingSize == MaxId + 1

\* The number of steps clockwise from identifier a to identifier b.
Clockwise(a, b) == (b - a) % RingSize

\* x is clockwise-after a and clockwise-before b, both endpoints excluded.
InsideOpen(x, a, b) ==
    Clockwise(a, x) > 0 /\ Clockwise(a, x) < Clockwise(a, b)

\* x is clockwise-after a and clockwise-before or at b.
InsideEndInclusive(x, a, b) ==
    Clockwise(a, x) > 0 /\ Clockwise(a, x) <= Clockwise(a, b)

\* Every level 1..m of node n's finger table holds a node.
FullyPopulated(n) ==
    \A i \in Levels : i \in DOMAIN finger_table[n] /\ finger_table[n][i] # None

\* The nodes node n's finger table holds.
Fingers(n) == {finger_table[n][i] : i \in DOMAIN finger_table[n]} \ {None}

ClosestPrecedingCalled == cp_self # None

\* C7 as claimed: on a fully populated finger table closest_preceding_node
\* returns self or a finger whose identifier is in the circular interval
\* (self.identifier, key_id), both endpoints excluded, and returns self when
\* no finger is in that interval.
C7_ReturnsInsideOpenInterval ==
    (ClosestPrecedingCalled /\ FullyPopulated(cp_self)) =>
        /\ cp_out.exc = ""
        /\ cp_out.node # cp_self =>
              /\ cp_out.node \in Fingers(cp_self)
              /\ InsideOpen(identifier[cp_out.node], identifier[cp_self], cp_key)
        /\ (\A f \in Fingers(cp_self) :
                ~InsideOpen(identifier[f], identifier[cp_self], cp_key))
              => cp_out.node = cp_self

\* C7 as amended: on a fully populated finger table closest_preceding_node
\* returns self or a finger whose identifier is in the circular interval
\* (self.identifier, key_id], start excluded and end included, and returns
\* self when no finger is in that interval.
C7_ReturnsInsideEndInclusive ==
    (ClosestPrecedingCalled /\ FullyPopulated(cp_self)) =>
        /\ cp_out.exc = ""
        /\ cp_out.node # cp_self =>
              /\ cp_out.node \in Fingers(cp_self)
              /\ InsideEndInclusive(identifier[cp_out.node], identifier[cp_self], cp_key)
        /\ (\A f \in Fingers(cp_self) :
                ~InsideEndInclusive(identifier[f], identifier[cp_self], cp_key))
              => cp_out.node = cp_self

\* C7 witness: on a fully populated table and a range that wraps, a finger
\* was returned although another finger lies outside the range.
C7_Witness ==
    /\ ClosestPrecedingCalled
    /\ FullyPopulated(cp_self)
    /\ identifier[cp_self] > cp_key
    /\ cp_out.node \notin {None, cp_self}
    /\ \E f \in Fingers(cp_self) :
          ~InsideEndInclusive(identifier[f], identifier[cp_self], cp_key)

\* C8: closest_preceding_node on a node with any level 1..m unpopulated
\* (absent or None) fails with IncompleteFingerTable.
C8_IncompleteFingerTable ==
    (ClosestPrecedingCalled /\ ~FullyPopulated(cp_self)) =>
        cp_out.exc = "IncompleteFingerTable"

\* The levels of node n's finger table whose finger qualifies for key: it
\* holds a node whose identifier is in (n's identifier, key].
QualifyingLevels(n, key) ==
    {i \in DOMAIN finger_table[n] :
        /\ finger_table[n][i] # None
        /\ InsideEndInclusive(identifier[finger_table[n][i]], identifier[n], key)}

Max(S) == CHOOSE x \in S : \A y \in S : y <= x

\* C13: whenever closest_preceding_node returns and some levels hold
\* qualifying fingers, the finger returned is the one at the highest such
\* level, whichever qualifying finger is nearest to key_id.
C13_HighestLevelFirst ==
    (/\ ClosestPrecedingCalled
     /\ cp_out.exc = ""
     /\ QualifyingLevels(cp_self, cp_key) # {}) =>
        cp_out.node = finger_table[cp_self][Max(QualifyingLevels(cp_self, cp_key))]

\* C13 witness: two levels qualify, the finger of the lower level is nearer
\* to the key, and the finger of the higher level was returned.
C13_Witness ==
    /\ ClosestPrecedingCalled
    /\ cp_out.exc = ""
    /\ \E i, j \in QualifyingLevels(cp_self, cp_key) :
          /\ i < j
          /\ Clockwise(identifier[finger_table[cp_self][i]], cp_key)
                < Clockwise(identifier[finger_table[cp_self][j]], cp_key)
          /\ cp_out.node = finger_table[cp_self][j]
          /\ cp_out.node # finger_table[cp_self][i]

\* The number of steps clockwise from a to b in the space of 2^m identifiers.
Distance(a, b) == (b - a) % (2 ^ m)

\* C14: whenever closest_preceding_node(key_id) on node n returns a finger f
\* other than n, (key_id - f.identifier) mod 2^m is strictly smaller than
\* (key_id - n.identifier) mod 2^m.
C14_HopReducesDistance ==
    (/\ ClosestPrecedingCalled
     /\ cp_out.exc = ""
     /\ cp_out.node # cp_self) =>
        Distance(identifier[cp_out.node], cp_key) < Distance(identifier[cp_self], cp_key)

\* C14 witness: a finger was returned over a range that wraps: self's
\* identifier is above the key and the finger's is above self's.
C14_Witness ==
    /\ ClosestPrecedingCalled
    /\ cp_out.exc = ""
    /\ cp_out.node # cp_self
    /\ identifier[cp_self] > cp_key
    /\ identifier[cp_out.node] > identifier[cp_self]

----------------------------------------------------------------------------
(* Claims about find_successor, checked under SpecSearch *)

\* The nodes reachable from the nodes of S through finger tables.
RECURSIVE ReachableFrom(_)
ReachableFrom(S) ==
    LET T == S \cup UNION {Fingers(n) : n \in S}
    IN IF T = S THEN S ELSE ReachableFrom(T)

SearchStarted == fs_status # "idle"

\* The recursive calls made so far.
Hops == Len(fs_stack) - 1

\* C9: where every node reachable from the starting node has a fully
\* populated finger table, find_successor does not recurse without end, and a
\* node that closest_preceding_node returned for itself is not called again.
C9_SearchTerminates ==
    (SearchStarted /\ \A n \in ReachableFrom({fs_stack[1]}) : FullyPopulated(n)) =>
        /\ fs_status # RecursionError
        /\ \A i \in 1 .. Hops : fs_stack[i + 1] # fs_stack[i]

\* C10: on two nodes with distinct identifiers and fully populated finger
\* tables, find_successor makes at most m hops and ends with a result.
C10_TwoNodeHops ==
    (/\ SearchStarted
     /\ identifier[1] # identifier[2]
     /\ \A n \in Pair : FullyPopulated(n)) =>
        /\ Hops <= m
        /\ fs_status \in {"running", "returned"}

\* C16: whenever find_successor returns a node, that node has key_id in its
\* key store; a node that holds key_id returns itself without consulting its
\* finger table (no hop, no failure on an empty table); no node that lacks
\* key_id is returned.
C16_ReturnsHolderOfKey ==
    /\ fs_status = "returned" => fs_key \in data[fs_stack[Len(fs_stack)]]
    /\ (SearchStarted /\ fs_key \in data[fs_stack[1]]) =>
          Hops = 0 /\ fs_status \in {"running", "returned"}

\* C16 witness: a search that began at a node lacking the key hopped to the
\* other node, which holds it and has an empty finger table, and returned it.
C16_Witness ==
    /\ fs_status = "returned"
    /\ Hops = 1
    /\ fs_key \notin data[fs_stack[1]]
    /\ finger_table[fs_stack[2]] = EmptyDict

----------------------------------------------------------------------------
(* Claims about the lookups together, checked under SpecLookup *)

\* A step of find_successor, closest_preceding_node, in_range or find_node.
LookupStep ==
    \/ \E n \in NodeRefs, key \in Ids : FindSuccessorCall(n, key)
    \/ FindSuccessorStep
    \/ \E n \in NodeRefs, key \in Ids : ClosestPrecedingCall(n, key)
    \/ \E target, start, end \in Ids : InRangeCall(target, start, end)
    \/ \E key \in Keys : find_node(key)

\* C15: the lookups leave every node's identifier, key store and finger
\* table, and the ring's member list, unchanged, whether they return or fail.
C15_LookupsPure ==
    [][LookupStep => UNCHANGED << identifier, data, finger_table, nodes >>]_vars

\* C15 witness: a find_successor hopped to another node and failed there.
C15_Witness ==
    /\ fs_status = KeyError
    /\ Len(fs_stack) = 2
    /\ fs_stack[1] # fs_stack[2]

----------------------------------------------------------------------------
(* Claims about ChordRing, checked under SpecRing *)

\* The identifiers of the members of list s.
MemberIds(s) == {identifier[s[i]] : i \in 1 .. Len(s)}

Min(S) == CHOOSE x \in S : \A y \in S : x <= y

\* A find_node call has been made on a ring with at least one member.
FoundOnMembers == fn_key # "" /\ fn_seen # << >>

\* C1: find_node(K) on a non-empty membership returns a member whose
\* identifier is the smallest member identifier >= hash(K), or the smallest
\* member identifier overall when hash(K) is greater than every one of them.
C1_FindNodeSuccessor ==
    FoundOnMembers =>
        LET h == hash_key(fn_key)
            ids == MemberIds(fn_seen)
            atLeast == {x \in ids : x >= h}
        IN /\ fn_out.exc = ""
           /\ \E i \in 1 .. Len(fn_seen) : fn_seen[i] = fn_out.node
           /\ identifier[fn_out.node] = IF atLeast # {} THEN Min(atLeast) ELSE Min(ids)

\* C1 witness: a lookup on three members whose hashed key lies beyond every
\* member identifier wrapped around to the smallest member.
C1_Witness ==
    /\ FoundOnMembers
    /\ Len(fn_seen) = 3
    /\ Cardinality(MemberIds(fn_seen)) = 3
    /\ \A x \in MemberIds(fn_seen) : x < hash_key(fn_key)
    /\ fn_out.node = fn_seen[1]

\* C2: find_node on a ring with zero members fails with the dedicated
\* EmptyRing error, never with an arithmetic artifact of the lookup.
C2_EmptyRingError ==
    (fn_key # "" /\ fn_seen = << >>) => fn_out.exc = "EmptyRing"

\* C5: after any sequence of add_node calls the member list is in ascending
\* order of identifier.
C5_MembersSorted ==
    \A i, j \in 1 .. Len(nodes) :
        i < j => identifier[nodes[i]] <= identifier[nodes[j]]

\* C5 witness: three nodes were added in descending order of identifier.
C5_Witness ==
    /\ Len(nodes) = 3
    /\ identifier[1] > identifier[2]
    /\ identifier[2] > identifier[3]

\* C6: after any sequence of add_node calls no two entries of the member
\* list have the same identifier.
C6_MembersDeduplicated ==
    \A i, j \in 1 .. Len(nodes) :
        i # j => identifier[nodes[i]] # identifier[nodes[j]]


\* C18: add_node of a node whose identifier is already present keeps both
\* nodes in the member list, in insertion order among equals, and find_node
\* for a key that resolves to that identifier returns the node added first.
\* (Node objects are numbered in the order they were added.)
C18_DuplicatesKeptFirstWins ==
    /\ Len(nodes) = Len(identifier)
    /\ \A i, j \in 1 .. Len(nodes) :
          (i < j /\ identifier[nodes[i]] = identifier[nodes[j]]) => nodes[i] < nodes[j]
    /\ FoundOnMembers =>
          \A i \in 1 .. Len(fn_seen) :
              identifier[fn_seen[i]] = identifier[fn_out.node] => fn_out.node <= fn_seen[i]

\* C18 witness: two nodes with one identifier were added, then a node with a
\* smaller one, and a lookup that resolved to the shared identifier returned
\* the first of the two.
C18_Witness ==
    /\ Len(nodes) = 3
    /\ identifier[1] = identifier[2]
    /\ identifier[3] < identifier[1]
    /\ fn_seen = nodes
    /\ fn_out.node = 1

----------------------------------------------------------------------------
(* Claims about the ring under threads, checked under SpecThreads *)

\* List s is in ascending order of identifier.
SortedByIdentifier(s) ==
    \A i, j \in 1 .. Len(s) : i < j => identifier[s[i]] <= identifier[s[j]]

\* List s holds exactly the first Len(s) nodes of list h, each once.
HoldsPrefixOf(s, h) ==
    /\ Len(s) <= Len(h)
    /\ {s[i] : i \in 1 .. Len(s)} = {h[i] : i \in 1 .. Len(s)}
    /\ \A i, j \in 1 .. Len(s) : i # j => s[i] # s[j]

\* Thread t's find_node has read the member list.
HasRead(t) == pc[t] = "find_exit" \/ (pc[t] = "idle" /\ th_key[t] # "")

\* Thread t is between appending its node and leaving the lock.
Adding(t) == pc[t] \in {"add_append", "add_sort", "add_exit"}

\* C11: under any interleaving, every find_node reads a sorted member list
\* that holds exactly the nodes of a prefix of the add_node calls in
\* lock-acquisition order, never a list appended to and not yet sorted; and
\* add_node calls take effect one at a time.
C11_SnapshotOfPrefix ==
    /\ \A t \in Threads : HasRead(t) =>
          /\ SortedByIdentifier(th_seen[t])
          /\ HoldsPrefixOf(th_seen[t], acquired)
    /\ \A t, u \in Threads : (Adding(t) /\ Adding(u)) => t = u
    /\ \A t \in Threads : (Adding(t) /\ pc[t] # "add_append") =>
          HoldsPrefixOf(nodes, acquired) /\ Len(nodes) = Len(acquired)

\* C11 witness: a find_node holds its snapshot of one node while the other
\* thread, having appended a node with a smaller identifier, has not sorted.
C11_Witness ==
    \E t, u \in Threads :
        /\ HasRead(t) /\ Len(th_seen[t]) = 1
        /\ pc[u] = "add_sort"
        /\ ~SortedByIdentifier(nodes)

\* C12: two find_node calls for the same key with no add_node taking effect
\* between them (both read a member list of the same length, at least one)
\* return the same node, also when members share an identifier.
C12_FindNodeDeterministic ==
    \A t, u \in Threads :
        (/\ HasRead(t) /\ HasRead(u)
         /\ th_key[t] = th_key[u]
         /\ Len(th_seen[t]) = Len(th_seen[u])
         /\ Len(th_seen[t]) >= 1) => th_out[t] = th_out[u]

\* C12 witness: both threads looked the same key up on two members that
\* share the identifier the key resolves to, and got the same node.
C12_Witness ==
    /\ \A t \in Threads :
          /\ HasRead(t) /\ pc[t] = "idle"
          /\ th_key[t] = "key1"
          /\ Len(th_seen[t]) = 2
          /\ th_out[t].node # None
    /\ th_out["t1"] = th_out["t2"]
    /\ identifier[1] = identifier[2]

\* The places of a thread inside a "with self.lock" block.
InsideLock == {"add_append", "add_sort", "add_exit", "find_read", "find_exit"}

\* C17: the lock is free after every add_node and find_node, a find_node
\* that failed on an empty ring included: the lock is held only by a thread
\* inside its with block, whose remaining steps wait for nothing, so a later
\* add_node or find_node can take it.
C17_LockFreeAfterCalls ==
    /\ \A t \in Threads : lock = t => pc[t] \in InsideLock
    /\ \A t \in Threads : pc[t] \in InsideLock => lock = t
    /\ (\A t \in Threads : pc[t] = "idle") => lock = NoThread

\* C17 witness: thread t1's find_node failed on the empty ring; after it an
\* add_node took the lock and completed, thread t2's find_node returned a
\* node, and the lock is free.
C17_Witness ==
    /\ pc["t1"] = "idle" /\ th_out["t1"].exc = ZeroDivisionError
    /\ pc["t2"] = "idle" /\ th_out["t2"].node # None
    /\ nodes # << >>
    /\ lock = NoThread

=============================================================================
